---------------------------- MODULE Spec2Model ----------------------------
(* Model of calibre's DOCX table support (src/calibre/ebooks/docx/tables.py):*)
(* the property readers, the three style records, the cascade operations    *)
(* of TableStyle and the table assembler Tables.                            *)
EXTENDS Integers, Sequences, FiniteSets, TLC

VARIABLES
    shape,          \* source document: shape[t][i] = number of w:tc in the i-th w:tr of w:tbl t
    ploc,           \* source document: ploc[p] = <<t, i, j>>, the w:tc holding w:p p, or TopLevel
    tables,         \* Tables.tables: the OrderedDict, a sequence of [tbl, blocks] items
    heap,           \* the list objects made by register; heap[id] is the list's content
    current_table,  \* Tables.current_table: the id of a list object, 0 before the first register
    object_map,     \* the converter's map: object_map[k] is the w:p the k-th output block came from
    host,           \* the output tree: children, text and tail of every element
    phase,          \* "flatten" while the document is walked, "assembled" after apply_markup
    log,            \* history: the calls made so far, <<"register", t>>, <<"add", p>>, <<"convert", p>>
    walk0,          \* history: the blocks of the host tree in document order when apply_markup began
    record,         \* the style record built last: its class, the node it was built from, its attributes
    self,           \* the TableStyle that update and resolve_based_on are called on
    levels,         \* history: the records passed to self.update so far, in the order of the calls
    last            \* history: the last call on self, the attributes of self before it, its argument

asmVars == <<shape, ploc, tables, heap, current_table, object_map, host, phase, log, walk0>>

styleVars == <<record, self, levels, last>>

vars == <<asmVars, styleVars>>

-----------------------------------------------------------------------------
(* Bound of the source documents: the most nodes (w:tbl, w:tr, w:tc and    *)
(* w:p together) a document has.                                            *)

MaxNodes == 6

Range(s) == {s[n] : n \in DOMAIN s}

RECURSIVE Concat(_)
Concat(ss) == IF ss = <<>> THEN <<>> ELSE Head(ss) \o Concat(Tail(ss))

-----------------------------------------------------------------------------
(* Values, XML elements and the helpers of calibre.ebooks.docx.names.       *)

\* block_styles.inherit: the sentinel, equal to no value a reader produces
inherit == <<"inherit">>
\* Python's None
None == <<"None">>
Str(s) == <<"str", s>>
Num(n) == <<"int", n>>

NoAttrs == [a \in {} |-> ""]

\* an XML element: its tag, its attributes (name -> text) and its children
Elem(tag, attrs, kids) == [tag |-> tag, attrs |-> attrs, kids |-> kids]

\* a style-container element together with the tag and the children of its parent
At(elem, ptag, pkids) ==
    [tag |-> elem.tag, attrs |-> elem.attrs, kids |-> elem.kids, ptag |-> ptag, pkids |-> pkids]

\* names.XPath('./w:<tag>')(parent): the children with that tag, in document order
XPath(parent, tag) == SelectSeq(parent.kids, LAMBDA e : e.tag = tag)

\* names.XPath('./w:<tag>[@w:<attr>]')(parent)
XPathWith(parent, tag, attr) ==
    SelectSeq(parent.kids, LAMBDA e : e.tag = tag /\ attr \in DOMAIN e.attrs)

\* names.get(elem, 'w:<attr>', default)
get(elem, attr, default) ==
    IF attr \in DOMAIN elem.attrs THEN Str(elem.attrs[attr]) ELSE default

\* the integers whose decimal text the sample documents use
Numerals == {-30, 0, 1, 2, 3, 20, 30, 2010, 5000, 20000}

\* int(v): TypeError on None, ValueError on text that is no decimal integer
int(v) ==
    IF v # None /\ \E n \in Numerals : ToString(n) = v[2]
    THEN [ok |-> TRUE, val |-> CHOOSE n \in Numerals : ToString(n) = v[2]]
    ELSE [ok |-> FALSE, val |-> 0]

\* the hexadecimal texts the sample documents use, with their values
HexLiterals == ("0" :> 0) @@ ("1" :> 1) @@ ("04A0" :> 1184) @@ ("01E0" :> 480)

\* int(v, 16)
int16(v) ==
    IF v # None /\ v[2] \in DOMAIN HexLiterals
    THEN [ok |-> TRUE, val |-> HexLiterals[v[2]]]
    ELSE [ok |-> FALSE, val |-> 0]

-----------------------------------------------------------------------------
(* '%.3g' % (n/d): a quotient of integers, d > 0, to three significant      *)
(* digits, as C's %g prints it. The quotient is rounded half to even, which *)
(* is what the float gives where n/d is a float exactly.                    *)

RECURSIVE Pow10(_)
Pow10(k) == IF k = 0 THEN 1 ELSE 10 * Pow10(k - 1)

Abs(n) == IF n < 0 THEN -n ELSE n

\* whether a/d >= 10^x
AtLeastPow(a, d, x) == IF x >= 0 THEN a >= d * Pow10(x) ELSE a * Pow10(-x) >= d

\* the decimal exponent of a/d, a > 0: the x with 10^x <= a/d < 10^(x+1),
\* looked for from x upwards or downwards
RECURSIVE ExponentFrom(_, _, _)
ExponentFrom(a, d, x) ==
    IF ~AtLeastPow(a, d, x) THEN ExponentFrom(a, d, x - 1)
    ELSE IF AtLeastPow(a, d, x + 1) THEN ExponentFrom(a, d, x + 1)
    ELSE x

Exponent(a, d) == ExponentFrom(a, d, 0)

RoundHalfEven(num, den) ==
    LET q == num \div den
        r == num % den
    IN IF 2 * r < den THEN q
       ELSE IF 2 * r > den THEN q + 1
       ELSE IF q % 2 = 0 THEN q ELSE q + 1

\* the digits of m, 100 <= m <= 999, without the trailing zeros, from the k-th on
DigitsFrom(m, k) ==
    LET d1 == ToString(m \div 100)
        d2 == ToString((m \div 10) % 10)
        d3 == ToString(m % 10)
        upto == IF m % 10 # 0 THEN 3 ELSE IF (m \div 10) % 10 # 0 THEN 2 ELSE 1
    IN (IF k <= 1 /\ upto >= 1 THEN d1 ELSE "") \o
       (IF k <= 2 /\ upto >= 2 THEN d2 ELSE "") \o
       (IF k <= 3 /\ upto >= 3 THEN d3 ELSE "")

Point(frac) == IF frac = "" THEN "" ELSE "." \o frac

RECURSIVE Zeros(_)
Zeros(k) == IF k <= 0 THEN "" ELSE "0" \o Zeros(k - 1)

Fmt3g(n, d) ==
    IF n = 0 THEN "0"
    ELSE LET a == Abs(n)
             x0 == Exponent(a, d)
             m0 == IF x0 <= 2 THEN RoundHalfEven(a * Pow10(2 - x0), d)
                   ELSE RoundHalfEven(a, d * Pow10(x0 - 2))
             m == IF m0 = 1000 THEN 100 ELSE m0
             x == IF m0 = 1000 THEN x0 + 1 ELSE x0
             text == IF x >= 3
                     THEN ToString(m \div 100) \o Point(DigitsFrom(m, 2)) \o "e+" \o
                          (IF x < 10 THEN "0" ELSE "") \o ToString(x)
                     ELSE IF x < -4
                     THEN ToString(m \div 100) \o Point(DigitsFrom(m, 2)) \o "e-" \o
                          (IF -x < 10 THEN "0" ELSE "") \o ToString(-x)
                     ELSE IF x = 2 THEN ToString(m)
                     ELSE IF x = 1 THEN ToString(m \div 10) \o Point(DigitsFrom(m, 3))
                     ELSE IF x = 0 THEN ToString(m \div 100) \o Point(DigitsFrom(m, 2))
                     ELSE "0." \o Zeros(-x - 1) \o DigitsFrom(m, 1)
         IN (IF n < 0 THEN "-" ELSE "") \o text

-----------------------------------------------------------------------------
(* Read from XML. An object is the function from the names of the           *)
(* attributes it has to their values.                                       *)

NewObject == [a \in {} |-> inherit]

setattr(dest, name, val) == (name :> val) @@ dest

Last(seq) == seq[Len(seq)]

\* _read_width with 'dxa' as the type of an element that states none
read_width_default_dxa(elem) ==
    LET parsed == int(get(elem, "w", None))
        w == IF parsed.ok THEN parsed.val ELSE 0
        typ == get(elem, "type", Str("dxa"))
    IN IF typ = Str("nil") THEN Str("0")
       ELSE IF typ = Str("auto") THEN Str("auto")
       ELSE IF typ = Str("dxa") THEN Str(Fmt3g(w, 20) \o "pt")
       ELSE IF typ = Str("pct") THEN Str(Fmt3g(w, 50) \o "%")
       ELSE inherit

_read_width(elem) ==
    LET parsed == int(get(elem, "w", None))
        w == IF parsed.ok THEN parsed.val ELSE 0
        typ == get(elem, "type", Str("auto"))
    IN IF typ = Str("nil") THEN Str("0")
       ELSE IF typ = Str("auto") THEN Str("auto")
       ELSE IF typ = Str("dxa") THEN Str(Fmt3g(w, 20) \o "pt")
       ELSE IF typ = Str("pct") THEN Str(Fmt3g(w, 50) \o "%")
       ELSE inherit

\* ans = inherit; for e in XPath('./w:<tag>')(parent): ans = _read_width(e)
LastWidth(parent, tag) ==
    IF XPath(parent, tag) = <<>> THEN inherit ELSE _read_width(Last(XPath(parent, tag)))

read_width(parent, dest) == setattr(dest, "width", LastWidth(parent, "tblW"))

read_cell_width(parent, dest) == setattr(dest, "width", LastWidth(parent, "tcW"))

PaddingEdges == <<"left", "top", "right", "bottom">>

\* The loop over the edges stores each width read into the dictionary that
\* locals() returns, not into the variables left, top, right and bottom; the
\* next call of locals() brings the dictionary back to the variables' values,
\* so the second loop reads inherit for every edge, whatever the node holds.
read_padding(parent, dest) ==
    LET name == IF parent.tag = "tblPr" THEN "tblCellMar" ELSE "tcMar"
        stored == [n \in 1..Len(PaddingEdges) |->
                     LET mars == XPath(parent, name)
                     IN IF mars = <<>> THEN inherit ELSE LastWidth(Last(mars), PaddingEdges[n])]
        locals == [n \in 1..Len(PaddingEdges) |-> inherit]
    IN setattr(setattr(setattr(setattr(dest,
          "cell_padding_left", locals[1]),
          "cell_padding_top", locals[2]),
          "cell_padding_right", locals[3]),
          "cell_padding_bottom", locals[4])

\* the loop of read_justification over the w:jc that have a w:val, from the n-th on
RECURSIVE Justify(_, _, _)
Justify(jcs, n, lr) ==
    IF n > Len(jcs) THEN lr
    ELSE LET val == get(jcs[n], "val", None)
         IN Justify(jcs, n + 1,
               IF val = Str("") THEN lr
               ELSE IF val = Str("left") THEN <<lr[1], Str("auto")>>
               ELSE IF val = Str("right") THEN <<Str("auto"), lr[2]>>
               ELSE IF val = Str("center") THEN <<Str("auto"), Str("auto")>>
               ELSE lr)

read_justification(parent, dest) ==
    LET lr == Justify(XPathWith(parent, "jc", "val"), 1, <<inherit, inherit>>)
    IN setattr(setattr(dest, "margin_left", lr[1]), "margin_right", lr[2])

read_spacing(parent, dest) == setattr(dest, "spacing", LastWidth(parent, "tblCellSpacing"))

read_indent(parent, dest) == setattr(dest, "indent", LastWidth(parent, "tblInd"))

border_edges == <<"left", "top", "right", "bottom", "insideH", "insideV">>

\* block_styles.border_props: the names of the properties of one edge, with
\* the attribute of the edge's element each is read from
border_props == <<<<"padding_", "">>, <<"border_", "_width">>, <<"border_", "_style">>, <<"border_", "_color">>>>
border_attrs == <<"space", "sz", "val", "color">>

\* k % edge
BorderName(k, edge) == border_props[k][1] \o edge \o border_props[k][2]

\* the properties read_border sets for the table edges: name, edge, attribute
BorderSlots ==
    Concat([e \in DOMAIN border_edges |->
              [k \in DOMAIN border_props |->
                 <<BorderName(k, border_edges[e]), border_edges[e], border_attrs[k]>>]])

\* block_styles.read_border: every property of every edge is set, to inherit
\* unless the container has the edge and the edge the attribute
RECURSIVE SetBorders(_, _, _)
SetBorders(boxes, dest, n) ==
    IF n > Len(BorderSlots) THEN dest
    ELSE LET slot == BorderSlots[n]
             val == IF boxes = <<>> \/ XPath(Last(boxes), slot[2]) = <<>> THEN inherit
                    ELSE get(Last(XPath(Last(boxes), slot[2])), slot[3], inherit)
         IN SetBorders(boxes, setattr(dest, slot[1], val), n + 1)

read_border(parent, dest, name) == SetBorders(XPath(parent, name), dest, 1)

read_borders(parent, dest) ==
    read_border(parent, dest, IF parent.tag = "tblPr" THEN "tblBorders" ELSE "tcBorders")

\* block_styles.read_shd: the fill of the last w:shd that has one
read_shd(parent, dest) ==
    LET shds == SelectSeq(XPathWith(parent, "shd", "fill"), LAMBDA e : e.attrs["fill"] # "")
    IN setattr(dest, "background_color",
               IF shds = <<>> THEN inherit
               ELSE IF Last(shds).attrs["fill"] = "auto" THEN Str("transparent")
               ELSE Str("#" \o Last(shds).attrs["fill"]))

\* the loop of read_height over the w:trHeight, from the n-th on
RECURSIVE Height(_, _, _)
Height(rhs, n, ans) ==
    IF n > Len(rhs) THEN ans
    ELSE LET rule == get(rhs[n], "hRule", Str("auto"))
         IN Height(rhs, n + 1,
               IF rule \in {Str("auto"), Str("atLeast"), Str("exact")}
               THEN <<"height", rule, get(rhs[n], "val", None)>> ELSE ans)

read_height(parent, dest) ==
    setattr(dest, "height", Height(XPath(parent, "trHeight"), 1, inherit))

read_vertical_align(parent, dest) ==
    LET vas == XPath(parent, "vAlign")
        val == get(Last(vas), "val", None)
    IN setattr(dest, "vertical_align",
               IF vas = <<>> THEN inherit
               ELSE IF val = Str("center") THEN Str("middle")
               ELSE IF val = Str("top") THEN Str("top")
               ELSE IF val = Str("bottom") THEN Str("bottom")
               ELSE Str("middle"))

\* a loop "try: ans = <parse>(get(e, 'w:val')) except: continue" over elements,
\* from the n-th on; hex tells which parse
RECURSIVE LastParsed(_, _, _, _)
LastParsed(es, n, ans, hex) ==
    IF n > Len(es) THEN ans
    ELSE LET parsed == IF hex THEN int16(get(es[n], "val", None)) ELSE int(get(es[n], "val", None))
         IN LastParsed(es, n + 1, IF parsed.ok THEN Num(parsed.val) ELSE ans, hex)

read_col_span(parent, dest) ==
    setattr(dest, "col_span", LastParsed(XPath(parent, "gridSpan"), 1, inherit, FALSE))

\* a read_merge that takes the w:val without a default
MergeValueNoDefault(parent, x) ==
    IF XPath(parent, x) = <<>> THEN inherit
    ELSE get(Last(XPath(parent, x)), "val", None)

\* the value read_merge gives one of hMerge and vMerge
MergeValue(parent, x) ==
    IF XPath(parent, x) = <<>> THEN inherit
    ELSE get(Last(XPath(parent, x)), "val", Str("continue"))

read_merge(parent, dest) ==
    setattr(setattr(dest, "hMerge", MergeValue(parent, "hMerge")), "vMerge", MergeValue(parent, "vMerge"))

\* a read_band_size that starts from inherit like the other readers
BandSizeInherit(parent, x) ==
    LastParsed(XPath(parent, "tblStyle" \o x \o "BandSize"), 1, inherit, FALSE)

\* the value read_band_size gives col_band_size (x = "Col") or row_band_size ("Row")
BandSize(parent, x) ==
    LastParsed(XPath(parent, "tblStyle" \o x \o "BandSize"), 1, Num(1), FALSE)

read_band_size(parent, dest) ==
    setattr(setattr(dest, "col_band_size", BandSize(parent, "Col")), "row_band_size", BandSize(parent, "Row"))

read_look(parent, dest) ==
    setattr(dest, "look", LastParsed(XPath(parent, "tblLook"), 1, Num(0), TRUE))

-----------------------------------------------------------------------------
(* The style records.                                                       *)

NoNode == [tag |-> "None"]

\* the properties of the six border edges, as all_properties lists them
BorderProperties == [n \in DOMAIN BorderSlots |-> BorderSlots[n][1]]

RowStyle_all_properties == <<"height", "cantSplit", "hidden", "spacing">>

CellStyle_all_properties ==
    <<"background_color", "cell_padding_left", "cell_padding_right", "cell_padding_top",
      "cell_padding_bottom", "width", "vertical_align", "col_span", "vMerge", "hMerge">>
    \o BorderProperties

TableStyle_all_properties ==
    <<"width", "cell_padding_left", "cell_padding_right", "cell_padding_top",
      "cell_padding_bottom", "margin_left", "margin_right", "background_color",
      "spacing", "indent", "overrides", "col_band_size", "row_band_size", "look">>
    \o BorderProperties

\* for p in self.all_properties: setattr(self, p, inherit)
AllInherit(props) == [p \in Range(props) |-> inherit]

\* RowStyle.__init__: with a node, nothing is set
RowStyle(trPr) ==
    IF trPr = NoNode THEN AllInherit(RowStyle_all_properties)
    ELSE NewObject

\* CellStyle.__init__
CellStyle(tcPr) ==
    IF tcPr = NoNode THEN AllInherit(CellStyle_all_properties)
    ELSE read_merge(tcPr,
         read_col_span(tcPr,
         read_vertical_align(tcPr,
         read_cell_width(tcPr,
         read_padding(tcPr,
         read_shd(tcPr,
         read_borders(tcPr, NewObject)))))))

\* the readers TableStyle.__init__ calls, in its order
TableReaders(tblPr, dest) ==
    read_look(tblPr,
    read_band_size(tblPr,
    read_borders(tblPr,
    read_indent(tblPr,
    read_spacing(tblPr,
    read_justification(tblPr,
    read_shd(tblPr,
    read_padding(tblPr,
    read_width(tblPr, dest)))))))))

\* orides, the dictionary made for one w:tblStylePr; table is TableStyle
\* applied to the last w:tblPr of it, when it has one
Orides(tblStylePr, table) ==
    LET slot(key, tag, val) == IF XPath(tblStylePr, tag) = <<>> THEN NewObject ELSE (key :> val)
    IN slot("table", "tblPr", <<"TableStyle", table>>) @@
       slot("row", "trPr", <<"RowStyle", RowStyle(Last(XPath(tblStylePr, "trPr")))>>) @@
       slot("cell", "tcPr", <<"node", Last(XPath(tblStylePr, "tcPr"))>>) @@
       slot("block", "pPr", <<"ParagraphStyle", Last(XPath(tblStylePr, "pPr"))>>) @@
       slot("char", "rPr", <<"RunStyle", Last(XPath(tblStylePr, "rPr"))>>)

\* TableStyle.__init__ of a w:tblPr that is not the child of a w:style
TableStyleDirect(tblPr) == TableReaders(tblPr, setattr(NewObject, "overrides", inherit))

\* TableStyle.__init__
TableStyle(tblPr) ==
    IF tblPr = NoNode THEN AllInherit(TableStyle_all_properties)
    ELSE IF tblPr.ptag # "style" THEN TableStyleDirect(tblPr)
    ELSE LET prs == SelectSeq(tblPr.pkids, LAMBDA e : e.tag = "tblStylePr" /\ "type" \in DOMAIN e.attrs)
             types == {prs[n].attrs["type"] : n \in DOMAIN prs}
             lastOf(otype) == prs[CHOOSE n \in DOMAIN prs :
                                    /\ prs[n].attrs["type"] = otype
                                    /\ \A m \in DOMAIN prs : prs[m].attrs["type"] = otype => m <= n]
             nested(pr) == IF XPath(pr, "tblPr") = <<>> THEN NewObject
                           ELSE TableStyleDirect(At(Last(XPath(pr, "tblPr")), "tblStylePr", pr.kids))
         IN setattr(TableStyleDirect(tblPr), "overrides",
                    <<"dict", [otype \in types |-> Orides(lastOf(otype), nested(lastOf(otype)))]>>)

\* an update that copies every value of other
update_all(this, other) ==
    [prop \in DOMAIN this |->
        IF prop \in Range(TableStyle_all_properties) THEN other[prop] ELSE this[prop]]

\* TableStyle.update
update(this, other) ==
    [prop \in DOMAIN this |->
        IF prop \in Range(TableStyle_all_properties) /\ other[prop] # inherit
        THEN other[prop] ELSE this[prop]]

\* a resolve_based_on that takes every value the parent has
resolve_from_parent(this, parent) ==
    [p \in DOMAIN this |->
        IF p \in Range(TableStyle_all_properties) /\ parent[p] # inherit
        THEN parent[p] ELSE this[p]]

\* TableStyle.resolve_based_on
resolve_based_on(this, parent) ==
    [p \in DOMAIN this |->
        IF p \in Range(TableStyle_all_properties) /\ this[p] = inherit
        THEN parent[p] ELSE this[p]]

-----------------------------------------------------------------------------
(* The source document and the XPath queries made on it.                    *)

TopLevel == <<0, 0, 0>>

\* XPath('./w:tr')(tbl): the rows of a table node, in document order
XPathTr(t) == [i \in 1..Len(shape[t]) |-> i]

\* XPath('./w:tc')(row): the cells of a row, in document order
XPathTc(t, i) == [j \in 1..shape[t][i] |-> j]

RECURSIVE Ascending(_)
Ascending(S) ==
    IF S = {} THEN <<>>
    ELSE LET m == CHOOSE x \in S : \A y \in S : x <= y
         IN <<m>> \o Ascending(S \ {m})

\* XPath('./w:p')(tc): the direct w:p children of a cell, in document order
XPathP(t, i, j) == Ascending({p \in DOMAIN ploc : ploc[p] = <<t, i, j>>})

-----------------------------------------------------------------------------
(* The output tree (lxml elements).                                         *)

Body == <<"body", 0, 0, 0>>
P(k) == <<"p", k, 0, 0>>
TABLE(t) == <<"table", t, 0, 0>>
TR(t, i) == <<"tr", t, i, 0>>
TD(t, i, j) == <<"td", t, i, j>>

NoText == "None"

\* a new element with no parent: its text, no children, no tail
Element(h, e, txt) ==
    [kids |-> (e :> <<>>) @@ h.kids,
     text |-> (e :> txt) @@ h.text,
     tail |-> (e :> NoText) @@ h.tail]

HasParent(h, e) == \E par \in DOMAIN h.kids : e \in Range(h.kids[par])

\* e.getparent()
getparent(h, e) == CHOOSE par \in DOMAIN h.kids : e \in Range(h.kids[par])

\* parent.index(e), counted from 1
index(h, par, e) == CHOOSE n \in DOMAIN h.kids[par] : h.kids[par][n] = e

Without(s, e) == SelectSeq(s, LAMBDA x : x # e)

\* an element has one parent: adding it somewhere takes it out of where it was
Detach(h, e) ==
    [h EXCEPT !.kids = [par \in DOMAIN h.kids |-> Without(h.kids[par], e)]]

\* parent.insert(idx, e): e comes to stand before the element now at idx
insert(h, par, idx, e) ==
    LET d == Detach(h, e)
        s == d.kids[par]
    IN [d EXCEPT !.kids[par] = SubSeq(s, 1, idx - 1) \o <<e>> \o SubSeq(s, idx, Len(s))]

\* parent.append(e)
append(h, par, e) ==
    LET d == Detach(h, e)
    IN [d EXCEPT !.kids[par] = Append(@, e)]

SetTail(h, e, txt) == [h EXCEPT !.tail[e] = txt]

RECURSIVE Walk(_, _)
RECURSIVE WalkAll(_, _)
\* the blocks met by a document-order walk from element e
Walk(h, e) == IF e[1] = "p" THEN <<e>> ELSE WalkAll(h, h.kids[e])
WalkAll(h, es) == IF es = <<>> THEN <<>> ELSE Walk(h, Head(es)) \o WalkAll(h, Tail(es))

-----------------------------------------------------------------------------
(* class Tables                                                             *)

KeyIndex(d, tbl) == {n \in DOMAIN d : d[n].tbl = tbl}

\* Tables.__init__
TablesInit ==
    /\ tables = <<>>
    /\ heap = <<>>
    /\ current_table = 0

\* a register that makes the new list the table's but leaves the cursor on the
\* list it already had
register_keeps_cursor(tbl) ==
    LET new == Len(heap) + 1
    IN /\ heap' = Append(heap, <<>>)
       /\ current_table' = IF current_table = 0 THEN new ELSE current_table
       /\ tables' = Append(tables, [tbl |-> tbl, blocks |-> new])

\* Tables.register: self.tables[tbl] = self.current_table = []
register(tbl) ==
    LET new == Len(heap) + 1
    IN /\ heap' = Append(heap, <<>>)
       /\ current_table' = new
       /\ tables' = IF KeyIndex(tables, tbl) = {}
                    THEN Append(tables, [tbl |-> tbl, blocks |-> new])
                    ELSE [n \in DOMAIN tables |->
                            IF tables[n].tbl = tbl
                            THEN [tbl |-> tbl, blocks |-> new] ELSE tables[n]]

\* Tables.add: self.current_table.append(p)
add(p) ==
    /\ heap' = [heap EXCEPT ![current_table] = Append(@, p)]
    /\ UNCHANGED <<tables, current_table>>

\* rmap = {v:k for k, v in object_map.iteritems()}
rmap(om, p) == P(CHOOSE k \in DOMAIN om : om[k] = p)

\* blocks put at the front of the cell, td.insert(0, block), instead of appended
RECURSIVE MoveBlocksFront(_, _, _, _)
MoveBlocksFront(h, om, td, ps) ==
    IF ps = <<>> THEN h
    ELSE MoveBlocksFront(insert(h, td, 1, rmap(om, Head(ps))), om, td, Tail(ps))

\* for p in XPath('./w:p')(tc): td.append(rmap[p])
RECURSIVE MoveBlocks(_, _, _, _)
MoveBlocks(h, om, td, ps) ==
    IF ps = <<>> THEN h
    ELSE MoveBlocks(append(h, td, rmap(om, Head(ps))), om, td, Tail(ps))

\* for tc in XPath('./w:tc')(row): one TD per cell, from cell j on
RECURSIVE BuildCells(_, _, _, _, _)
BuildCells(h, om, t, i, j) ==
    IF j > Len(XPathTc(t, i)) THEN h
    ELSE LET td == TD(t, i, j)
             h1 == SetTail(Element(h, td, NoText), td, "\n\t\t\t")
             h2 == append(h1, TR(t, i), td)
             h3 == MoveBlocks(h2, om, td, XPathP(t, i, j))
         IN BuildCells(h3, om, t, i, j + 1)

\* if len(x): x[-1].tail = txt
LastTail(h, e, txt) ==
    IF Len(h.kids[e]) > 0 THEN SetTail(h, h.kids[e][Len(h.kids[e])], txt) ELSE h

\* rows that have no cell get no TR
RECURSIVE BuildRowsSkipEmpty(_, _, _, _)
BuildRowsSkipEmpty(h, om, t, i) ==
    IF i > Len(XPathTr(t)) THEN h
    ELSE IF Len(XPathTc(t, i)) = 0 THEN BuildRowsSkipEmpty(h, om, t, i + 1)
    ELSE LET tr == TR(t, i)
             h1 == SetTail(Element(h, tr, "\n\t\t\t"), tr, "\n\t\t")
             h2 == append(h1, TABLE(t), tr)
             h3 == BuildCells(h2, om, t, i, 1)
             h4 == LastTail(h3, tr, "\n\t\t")
         IN BuildRowsSkipEmpty(h4, om, t, i + 1)

\* for row in XPath('./w:tr')(tbl): one TR per row, from row i on
RECURSIVE BuildRows(_, _, _, _)
BuildRows(h, om, t, i) ==
    IF i > Len(XPathTr(t)) THEN h
    ELSE LET tr == TR(t, i)
             h1 == SetTail(Element(h, tr, "\n\t\t\t"), tr, "\n\t\t")
             h2 == append(h1, TABLE(t), tr)
             h3 == BuildCells(h2, om, t, i, 1)
             h4 == LastTail(h3, tr, "\n\t\t")
         IN BuildRows(h4, om, t, i + 1)

\* the new table element put at the end of the parent, parent.append(table)
InsertAtEnd(h, par, first) == Len(h.kids[par]) + 1

\* where the new table element goes: parent.index(rmap[blocks[0]])
InsertIndex(h, par, first) == index(h, par, first)

\* the body of the loop over self.tables, for one table with its blocks
BuildTable(h, om, t, blocks) ==
    IF blocks = <<>> THEN h
    ELSE LET first == rmap(om, blocks[1])
             parent == getparent(h, first)
             idx == InsertIndex(h, parent, first)
             h1 == insert(Element(h, TABLE(t), "\n\t\t"), parent, idx, TABLE(t))
             h2 == BuildRows(h1, om, t, 1)
         IN LastTail(h2, TABLE(t), "\n\t")

\* Tables.apply_markup: the loop over self.tables.iteritems(), from item n on
RECURSIVE apply_markup(_, _, _, _, _)
apply_markup(h, om, d, hp, n) ==
    IF n > Len(d) THEN h
    ELSE apply_markup(BuildTable(h, om, d[n].tbl, hp[d[n].blocks]), om, d, hp, n + 1)

-----------------------------------------------------------------------------
(* The converter that drives Tables: it walks the document, converts each   *)
(* w:p once into an output block appended to the body, registers each w:tbl *)
(* once, and calls apply_markup when the walk is over.                      *)

RECURSIVE Sum(_)
Sum(s) == IF s = <<>> THEN 0 ELSE Head(s) + Sum(Tail(s))

\* the nodes of one table: the w:tbl, its w:tr and their w:tc
TableNodes(sh) == 1 + Len(sh) + Sum(sh)

\* the tables of at most b nodes: a sequence of rows, each a number of cells
RECURSIVE Shapes(_)
Shapes(b) ==
    IF b < 1 THEN {}
    ELSE {<<>>} \cup UNION {{<<c>> \o s : s \in Shapes(b - 1 - c)} : c \in 0..(b - 2)}

\* the sequences of tables of at most b nodes together
RECURSIVE TableSeqs(_)
TableSeqs(b) ==
    {<<>>} \cup UNION {{<<sh>> \o rest : rest \in TableSeqs(b - TableNodes(sh))} : sh \in Shapes(b)}

RECURSIVE TablesNodes(_)
TablesNodes(shs) == IF shs = <<>> THEN 0 ELSE TableNodes(Head(shs)) + TablesNodes(Tail(shs))

CellsOf(shs, t) ==
    UNION {{<<t, i, j>> : j \in 1..shs[t][i]} : i \in 1..Len(shs[t])}

Locs(shs) == {TopLevel} \cup UNION {CellsOf(shs, t) : t \in DOMAIN shs}

\* row-major order of two cells of one table
CellLeq(a, b) == a[2] < b[2] \/ (a[2] = b[2] /\ a[3] <= b[3])

\* paragraph ids follow document order inside a table
DocOrdered(pl) ==
    \A p, q \in DOMAIN pl :
        (p < q /\ pl[p] # TopLevel /\ pl[p][1] = pl[q][1]) => CellLeq(pl[p], pl[q])

TableIds == DOMAIN shape
ParaIds == DOMAIN ploc

Converted == Range(object_map)
Registered == {tables[n].tbl : n \in DOMAIN tables}

\* a w:tbl is met: it is registered
VisitTable(t) ==
    /\ phase = "flatten"
    /\ t \notin Registered
    /\ register(t)
    /\ log' = Append(log, <<"register", t>>)
    /\ UNCHANGED <<shape, ploc, object_map, host, phase, walk0, styleVars>>

\* a w:p is met: it is converted, its block goes to the end of the body, and
\* (inside a table) it is added to the table being flattened
VisitParagraph(p, inTable) ==
    /\ phase = "flatten"
    /\ p \notin Converted
    /\ inTable => current_table # 0
    /\ object_map' = Append(object_map, p)
    /\ host' = append(Element(host, P(Len(object_map) + 1), NoText), Body, P(Len(object_map) + 1))
    /\ IF inTable
       THEN add(p) /\ log' = Append(log, <<"add", p>>)
       ELSE UNCHANGED <<tables, heap, current_table>> /\ log' = Append(log, <<"convert", p>>)
    /\ UNCHANGED <<shape, ploc, phase, walk0, styleVars>>

\* the walk is over: the tables are rebuilt in the host tree
Assemble ==
    /\ phase = "flatten"
    /\ Converted = ParaIds
    /\ host' = apply_markup(host, object_map, tables, heap, 1)
    /\ phase' = "assembled"
    /\ walk0' = Walk(host, Body)
    /\ UNCHANGED <<shape, ploc, tables, heap, current_table, object_map, log, styleVars>>

AsmNext ==
    \/ \E t \in TableIds : VisitTable(t)
    \/ \E p \in ParaIds, inTable \in BOOLEAN : VisitParagraph(p, inTable)
    \/ Assemble

-----------------------------------------------------------------------------
(* The same converter when it flattens one table at a time: a register is   *)
(* followed by the adds of that table's paragraphs, all of them and in      *)
(* document order, before any other call.                                   *)

MaxNodesSeq == 9

\* the w:p of a table's cells, row by row and cell by cell
AllParas(t) ==
    Concat([i \in 1..Len(shape[t]) |-> Concat([j \in 1..shape[t][i] |-> XPathP(t, i, j)])])

\* the calls l are made of whole tables; with whole = FALSE the last table may
\* still be under way
RECURSIVE OneTableAtATime(_, _)
OneTableAtATime(l, whole) ==
    IF l = <<>> THEN TRUE
    ELSE IF Head(l)[1] = "convert" THEN OneTableAtATime(Tail(l), whole)
    ELSE IF Head(l)[1] = "register"
    THEN LET ps == AllParas(Head(l)[2])
             rest == Tail(l)
         IN IF Len(rest) >= Len(ps)
            THEN /\ \A n \in 1..Len(ps) : rest[n] = <<"add", ps[n]>>
                 /\ OneTableAtATime(SubSeq(rest, Len(ps) + 1, Len(rest)), whole)
            ELSE /\ ~whole
                 /\ \A n \in 1..Len(rest) : rest[n] = <<"add", ps[n]>>
    ELSE FALSE

\* no style record is built while a document is converted
StyleIdle ==
    /\ record = [cls |-> "none", node |-> NoNode, attrs |-> NewObject]
    /\ self = TableStyle(NoNode)
    /\ levels = <<>>
    /\ last = [op |-> "init", before |-> NewObject, other |-> NoNode, resolves |-> 0]

DocInit(b) ==
    /\ StyleIdle
    /\ shape \in TableSeqs(b)
    /\ \E m \in 0..(b - TablesNodes(shape)) : ploc \in [1..m -> Locs(shape)]
    /\ DocOrdered(ploc)
    /\ TablesInit
    /\ object_map = <<>>
    /\ host = [kids |-> (Body :> <<>>), text |-> (Body :> NoText), tail |-> (Body :> NoText)]
    /\ phase = "flatten"
    /\ log = <<>>
    /\ walk0 = <<>>

\* the walk meets the tables and the paragraphs in document order, the order
\* of their ids
SeqNext ==
    \/ \E t \in TableIds :
          /\ t = Len(tables) + 1
          /\ VisitTable(t)
          /\ OneTableAtATime(log', FALSE)
    \/ \E p \in ParaIds, inTable \in BOOLEAN :
          /\ p = Len(object_map) + 1
          /\ VisitParagraph(p, inTable)
          /\ OneTableAtATime(log', FALSE)
    \/ Assemble /\ OneTableAtATime(log, TRUE)

SpecAssembly == DocInit(MaxNodes) /\ [][AsmNext]_vars

SpecSequential == DocInit(MaxNodesSeq) /\ [][SeqNext]_vars

-----------------------------------------------------------------------------
(* Style records built from sample nodes.                                   *)

MaxChildren == 2

\* no document is converted while style records are built
NoDocument ==
    /\ shape = <<>>
    /\ ploc = <<>>
    /\ TablesInit
    /\ object_map = <<>>
    /\ host = [kids |-> (Body :> <<>>), text |-> (Body :> NoText), tail |-> (Body :> NoText)]
    /\ phase = "styles"
    /\ log = <<>>
    /\ walk0 = <<>>

Leaf(tag, attrs) == Elem(tag, attrs, <<>>)

\* width-typed elements: every unit type with and without a magnitude
WidthElems(tag) ==
    {Leaf(tag, NoAttrs)} \cup
    {Leaf(tag, "w" :> "20")} \cup
    {Leaf(tag, "type" :> t) : t \in {"nil", "auto", "dxa", "pct", "cm"}} \cup
    {Leaf(tag, ("w" :> w) @@ ("type" :> t)) :
        w \in {"20", "5000", "abc"}, t \in {"nil", "auto", "dxa", "pct", "cm"}} \cup
    {Leaf(tag, ("w" :> "2010") @@ ("type" :> "dxa")),
     Leaf(tag, ("w" :> "-30") @@ ("type" :> "dxa")),
     Leaf(tag, ("w" :> "0") @@ ("type" :> "pct"))}

ValElems(tag, vals) == {Leaf(tag, NoAttrs)} \cup {Leaf(tag, "val" :> v) : v \in vals}

TblPrChildren ==
    WidthElems("tblW") \cup
    {Leaf("tblInd", ("w" :> "20") @@ ("type" :> "dxa")),
     Leaf("tblCellSpacing", ("w" :> "30") @@ ("type" :> "dxa")),
     Elem("tblCellMar", NoAttrs, <<Leaf("left", ("w" :> "20") @@ ("type" :> "dxa"))>>),
     Elem("tblBorders", NoAttrs, <<Leaf("top", ("val" :> "single") @@ ("sz" :> "4"))>>),
     Leaf("shd", "fill" :> "FF0000")} \cup
    ValElems("jc", {"left", "right", "center", "both", ""}) \cup
    ValElems("tblStyleColBandSize", {"2", "abc"}) \cup
    ValElems("tblStyleRowBandSize", {"3", "abc"}) \cup
    ValElems("tblLook", {"04A0", "01E0", "xyz"})

TcPrChildren ==
    ValElems("hMerge", {"continue", "restart"}) \cup
    ValElems("vMerge", {"continue", "restart"}) \cup
    ValElems("gridSpan", {"2", "abc"}) \cup
    ValElems("vAlign", {"center", "top", "bottom", "both"}) \cup
    {Leaf("tcW", ("w" :> "5000") @@ ("type" :> "pct")),
     Elem("tcMar", NoAttrs, <<Leaf("top", ("w" :> "20") @@ ("type" :> "dxa"))>>),
     Leaf("shd", "fill" :> "auto")}

TrPrChildren ==
    {Leaf("trHeight", ("val" :> "20") @@ ("hRule" :> "exact")),
     Leaf("trHeight", "val" :> "20"),
     Leaf("cantSplit", NoAttrs),
     Leaf("hidden", NoAttrs),
     Leaf("tblCellSpacing", ("w" :> "30") @@ ("type" :> "dxa"))}

\* the sequences over S of at most n elements
RECURSIVE SeqsUpTo(_, _)
SeqsUpTo(S, n) ==
    IF n = 0 THEN {<<>>}
    ELSE {<<>>} \cup {<<x>> \o q : x \in S, q \in SeqsUpTo(S, n - 1)}

\* the conditional formatting of a named style
StylePrs ==
    <<Elem("tblStylePr", "type" :> "firstRow",
           <<Elem("tblPr", NoAttrs, <<Leaf("tblStyleColBandSize", "val" :> "2")>>),
             Elem("trPr", NoAttrs, <<Leaf("cantSplit", NoAttrs)>>),
             Elem("tcPr", NoAttrs, <<Leaf("vMerge", NoAttrs)>>)>>),
      Elem("tblStylePr", NoAttrs, <<Elem("pPr", NoAttrs, <<>>)>>),
      Elem("tblStylePr", "type" :> "band1Vert", <<Elem("rPr", NoAttrs, <<>>)>>)>>

\* w:tblPr nodes, of a w:tbl and of a w:style
TblPrNodes ==
    {At(Elem("tblPr", NoAttrs, kids), "tbl", <<>>) : kids \in SeqsUpTo(TblPrChildren, MaxChildren)}
    \cup {At(Elem("tblPr", NoAttrs, kids), "style", StylePrs) : kids \in SeqsUpTo(TblPrChildren, 1)}

TcPrNodes == {At(Elem("tcPr", NoAttrs, kids), "tc", <<>>) : kids \in SeqsUpTo(TcPrChildren, MaxChildren)}

TrPrNodes == {At(Elem("trPr", NoAttrs, kids), "tr", <<>>) : kids \in SeqsUpTo(TrPrChildren, MaxChildren)}

NoRecord == [cls |-> "none", node |-> NoNode, attrs |-> NewObject]

\* a record is built when none is at hand
Built(cls, node, attrs) ==
    /\ record = NoRecord
    /\ record' = [cls |-> cls, node |-> node, attrs |-> attrs]
    /\ UNCHANGED <<asmVars, self, levels, last>>

NewTableStyle(node) == Built("TableStyle", node, TableStyle(node))

NewRowStyle(node) == Built("RowStyle", node, RowStyle(node))

NewCellStyle(node) == Built("CellStyle", node, CellStyle(node))

RecNext ==
    \/ record = NoRecord /\ \E node \in TblPrNodes \cup {NoNode} : NewTableStyle(node)
    \/ record = NoRecord /\ \E node \in TrPrNodes \cup {NoNode} : NewRowStyle(node)
    \/ record = NoRecord /\ \E node \in TcPrNodes \cup {NoNode} : NewCellStyle(node)

StyleInit == NoDocument /\ StyleIdle

SpecRecords == StyleInit /\ [][RecNext]_vars

-----------------------------------------------------------------------------
(* The cascade: update and resolve_based_on called on one TableStyle with   *)
(* records built from sample nodes.                                         *)

MaxLevels == 3
MaxResolves == 2

CascadeNodes ==
    {At(Elem("tblPr", NoAttrs, kids), "tbl", <<>>) :
        kids \in {<<>>,
                  <<Leaf("tblW", ("w" :> "5000") @@ ("type" :> "pct"))>>,
                  <<Leaf("tblW", "type" :> "auto"), Leaf("jc", "val" :> "center")>>,
                  <<Leaf("tblStyleColBandSize", "val" :> "2"), Leaf("tblLook", "val" :> "04A0")>>,
                  <<Leaf("tblStyleRowBandSize", "val" :> "3"), Leaf("tblInd", ("w" :> "20") @@ ("type" :> "dxa"))>>,
                  <<Leaf("tblStyleColBandSize", "val" :> "abc"), Leaf("shd", "fill" :> "FF0000")>>}}
    \cup {At(Elem("tblPr", NoAttrs, <<Leaf("tblCellSpacing", ("w" :> "30") @@ ("type" :> "dxa"))>>),
             "style", StylePrs)}

\* self.update(other), other the record built last, which is the next level of
\* the cascade; all updates come before the first resolve_based_on
Update ==
    /\ record.cls = "TableStyle"
    /\ last.op # "resolve"
    /\ Len(levels) < MaxLevels
    /\ self' = update(self, record.attrs)
    /\ levels' = Append(levels, record)
    /\ last' = [op |-> "update", before |-> self, other |-> record.node, resolves |-> 0]
    /\ record' = NoRecord
    /\ UNCHANGED asmVars

\* self.resolve_based_on(parent), parent the record built last
ResolveBasedOn ==
    /\ record.cls = "TableStyle"
    /\ last.resolves < MaxResolves
    /\ self' = resolve_based_on(self, record.attrs)
    /\ last' = [op |-> "resolve", before |-> self, other |-> record.node,
                resolves |-> last.resolves + 1]
    /\ UNCHANGED <<asmVars, record, levels>>

CascadeNext ==
    \/ record = NoRecord /\ \E node \in CascadeNodes \cup {NoNode} : NewTableStyle(node)
    \/ Update
    \/ ResolveBasedOn

SpecCascade == StyleInit /\ [][CascadeNext]_vars

-----------------------------------------------------------------------------
(* Properties of the assembler.                                             *)

\* the list self.tables[t]
ListOf(t) == heap[tables[CHOOSE n \in DOMAIN tables : tables[n].tbl = t].blocks]

\* the output block a converted w:p became
BlockOf(p) == P(CHOOSE k \in DOMAIN object_map : object_map[k] = p)

\* the output blocks among the children of an element, in order
BlocksIn(e) == SelectSeq(host.kids[e], LAMBDA x : x[1] = "p")

Emitted(t) == TABLE(t) \in DOMAIN host.kids

\* C1: after apply_markup every registered table with at least one contributed
\* block has one table element, placed once in the tree, whose children are one
\* row container per w:tr in order, each with one cell container per w:tc in
\* order, each cell container holding the blocks of its direct w:p children in
\* document order.
C1_TableRebuilt ==
    phase = "assembled" =>
        \A t \in Registered :
            ListOf(t) # <<>> =>
                /\ Emitted(t)
                /\ Cardinality({e \in DOMAIN host.kids : TABLE(t) \in Range(host.kids[e])}) = 1
                /\ \A e \in DOMAIN host.kids :
                     Len(SelectSeq(host.kids[e], LAMBDA x : x = TABLE(t))) <= 1
                /\ host.kids[TABLE(t)] = [i \in 1..Len(shape[t]) |-> TR(t, i)]
                /\ \A i \in 1..Len(shape[t]) :
                     /\ host.kids[TR(t, i)] = [j \in 1..shape[t][i] |-> TD(t, i, j)]
                     /\ \A j \in 1..shape[t][i] :
                          BlocksIn(TD(t, i, j)) =
                             [k \in 1..Len(XPathP(t, i, j)) |-> BlockOf(XPathP(t, i, j)[k])]

\* a table was rebuilt that has a row of two cells and a cell of two paragraphs
C1_Witness ==
    /\ phase = "assembled"
    /\ \E t \in Registered :
         /\ ListOf(t) # <<>>
         /\ \E i \in 1..Len(shape[t]) :
              /\ shape[t][i] >= 2
              /\ \E j \in 1..shape[t][i] : Len(XPathP(t, i, j)) >= 2

\* C2: when the tables were flattened one at a time, a document-order walk of
\* the host tree after apply_markup meets the blocks in the order it met them
\* before, every block once.
C2_OrderKept ==
    (phase = "assembled" /\ OneTableAtATime(log, TRUE)) =>
        /\ Walk(host, Body) = walk0
        /\ walk0 = [k \in 1..Len(object_map) |-> P(k)]

\* two tables were rebuilt, each from blocks of its own, with a paragraph of the
\* body before, between and after them
C2_Witness ==
    /\ phase = "assembled"
    /\ OneTableAtATime(log, TRUE)
    /\ \E t, u \in Registered :
         /\ t # u
         /\ ListOf(t) # <<>>
         /\ ListOf(u) # <<>>
    /\ \E n \in DOMAIN host.kids[Body] :
         /\ n > 1
         /\ n < Len(host.kids[Body])
         /\ host.kids[Body][n][1] = "p"
         /\ host.kids[Body][n - 1][1] = "table"
         /\ host.kids[Body][n + 1][1] = "table"

\* C3: after apply_markup a registered table with no contributed block has no
\* table element, and a table that has one has a row container for every w:tr
\* and a cell container for every w:tc, also for a row without cells and a cell
\* without paragraphs.
C3_EmptySkippedContainersKept ==
    phase = "assembled" =>
        \A t \in Registered :
            /\ ListOf(t) = <<>> =>
                 /\ ~Emitted(t)
                 /\ \A e \in DOMAIN host.kids : e[1] \in {"table", "tr", "td"} => e[2] # t
            /\ Emitted(t) =>
                 \A i \in 1..Len(shape[t]) :
                    /\ TR(t, i) \in Range(host.kids[TABLE(t)])
                    /\ \A j \in 1..shape[t][i] :
                         /\ TD(t, i, j) \in Range(host.kids[TR(t, i)])
                         /\ TD(t, i, j) \in DOMAIN host.kids

\* a table with a row and a cell but no block was skipped, and a table was
\* rebuilt that has a row without cells
C3_Witness ==
    /\ phase = "assembled"
    /\ \E t \in Registered :
         /\ ListOf(t) = <<>>
         /\ Len(shape[t]) >= 1
         /\ shape[t][1] >= 1
    /\ \E u \in Registered :
         /\ ListOf(u) # <<>>
         /\ \E i \in 1..Len(shape[u]) : shape[u][i] = 0

\* the table registered last before the n-th call
RECURSIVE LastRegistered(_)
LastRegistered(n) ==
    IF n = 0 THEN 0
    ELSE IF log[n][1] = "register" THEN log[n][2]
    ELSE LastRegistered(n - 1)

\* the paragraphs added while t was the table registered last, in the order of
\* the calls
AddedUnder(t) ==
    LET calls == SelectSeq([n \in DOMAIN log |-> <<log[n][1], log[n][2], LastRegistered(n)>>],
                           LAMBDA c : c[1] = "add" /\ c[3] = t)
    IN [n \in DOMAIN calls |-> calls[n][2]]

\* C9: every block passed to add is in the list of the table registered last
\* before that add and in no other list; the list of a table is the blocks
\* added while it was the table registered last, so it stops growing when
\* another table is registered.
C9_AddGoesToLastRegistered ==
    /\ \A n \in DOMAIN log :
         log[n][1] = "add" =>
            /\ LastRegistered(n) \in Registered
            /\ log[n][2] \in Range(ListOf(LastRegistered(n)))
            /\ \A u \in Registered \ {LastRegistered(n)} : log[n][2] \notin Range(ListOf(u))
    /\ \A t \in Registered : ListOf(t) = AddedUnder(t)

\* table u was registered while table t was being flattened, and a paragraph of
\* a cell of t, added after that, is in the list of u
C9_Witness ==
    \E a, b, c, d \in DOMAIN log :
        /\ a < b /\ b < c /\ c < d
        /\ log[a][1] = "register"
        /\ log[b] = <<"add", log[b][2]>>
        /\ ploc[log[b][2]][1] = log[a][2]
        /\ log[c][1] = "register"
        /\ log[d][1] = "add"
        /\ ploc[log[d][2]][1] = log[a][2]
        /\ log[d][2] \in Range(ListOf(log[c][2]))
        /\ log[d][2] \notin Range(ListOf(log[a][2]))

-----------------------------------------------------------------------------
(* Properties of the cascade.                                               *)

TableProps == Range(TableStyle_all_properties)

\* the record update was called with last
Other == levels[Len(levels)].attrs

\* the value of the most specific level of the cascade that has one for p
MostSpecific(p) ==
    LET having == {n \in DOMAIN levels : levels[n].attrs[p] # inherit}
    IN IF having = {} THEN inherit
       ELSE levels[CHOOSE n \in having : \A m \in having : m <= n].attrs[p]

\* C4: after update was applied once per level, from the least to the most
\* specific, every property of all_properties has the value of the most
\* specific level whose value for it is not inherit (inherit when no level has
\* one), and an update whose other holds inherit for a property leaves the
\* value self held for it.
C4_MostSpecificWins ==
    last.op # "resolve" =>
        /\ \A p \in TableProps : self[p] = MostSpecific(p)
        /\ last.op = "update" =>
             \A p \in TableProps : Other[p] = inherit => self[p] = last.before[p]

\* three levels were applied, and for some property the third holds inherit,
\* the second a value, the first another value
C4_Witness ==
    /\ last.op = "update"
    /\ Len(levels) = 3
    /\ \E p \in TableProps :
         /\ levels[3].attrs[p] = inherit
         /\ levels[2].attrs[p] # inherit
         /\ levels[1].attrs[p] \notin {inherit, levels[2].attrs[p]}
         /\ self[p] = levels[2].attrs[p]

\* C5: resolve_based_on leaves the properties of self that were not inherit
\* before the call as they were, and calling it again with the same parent
\* changes nothing: the state after two calls is the state after one.
C5_ResolveIdempotent ==
    last.op = "resolve" =>
        /\ \A p \in TableProps : last.before[p] # inherit => self[p] = last.before[p]
        /\ resolve_based_on(self, record.attrs) = self
        /\ last.resolves >= 2 => self = last.before

\* after updates that left some property inherit and set another, self was
\* resolved twice against a parent that has a value for the first
C5_Witness ==
    /\ last.op = "resolve"
    /\ last.resolves = 2
    /\ levels # <<>>
    /\ \E p, q \in TableProps :
         /\ MostSpecific(p) = inherit
         /\ record.attrs[p] # inherit
         /\ self[p] = record.attrs[p]
         /\ MostSpecific(q) # inherit
         /\ record.attrs[q] \notin {inherit, MostSpecific(q)}
         /\ self[q] = MostSpecific(q)

BandProps == {"col_band_size", "row_band_size", "look"}

\* the element of a w:tblPr that declares a band property
BandTag(p) ==
    IF p = "col_band_size" THEN "tblStyleColBandSize"
    ELSE IF p = "row_band_size" THEN "tblStyleRowBandSize"
    ELSE "tblLook"

\* C10: a TableStyle built from a node never holds inherit for col_band_size,
\* row_band_size or look, which are 1, 1 and 0 when the node declares none, so
\* an update with such an other leaves self with other's values for the three,
\* whatever self held.
C10_BandsAlwaysReplaced ==
    /\ (record.cls = "TableStyle" /\ record.node # NoNode) =>
          /\ \A p \in BandProps : record.attrs[p] # inherit
          /\ \A p \in BandProps :
                XPath(record.node, BandTag(p)) = <<>> =>
                    record.attrs[p] = IF p = "look" THEN Num(0) ELSE Num(1)
    /\ (last.op = "update" /\ last.other # NoNode) =>
          \A p \in BandProps : Other[p] # inherit /\ self[p] = Other[p]

\* self held a declared column band size of 2 and a declared look, and an
\* update with the record of a node that declares neither set them to 1 and 0
C10_Witness ==
    /\ last.op = "update"
    /\ last.other # NoNode
    /\ XPath(last.other, "tblStyleColBandSize") = <<>>
    /\ XPath(last.other, "tblLook") = <<>>
    /\ last.before["col_band_size"] = Num(2)
    /\ last.before["look"] = Num(1184)
    /\ self["col_band_size"] = Num(1)
    /\ self["look"] = Num(0)

-----------------------------------------------------------------------------
(* Properties of the records built from nodes.                              *)

\* the width elements of the node the record at hand was built from
WidthNodes == XPath(record.node, IF record.cls = "TableStyle" THEN "tblW" ELSE "tcW")

\* the record at hand was built from a node by a class that reads a width
WidthRead == record.cls \in {"TableStyle", "CellStyle"} /\ record.node # NoNode

\* C6 as stated: unit-type nil gives "0"; unit-type auto, or a missing
\* magnitude, gives "auto"; no width element gives inherit.
C6_MissingMagnitudeIsAuto ==
    WidthRead =>
        IF WidthNodes = <<>> THEN record.attrs["width"] = inherit
        ELSE LET e == Last(WidthNodes)
             IN /\ get(e, "type", None) = Str("nil") => record.attrs["width"] = Str("0")
                /\ (get(e, "type", None) # Str("nil")
                       /\ (get(e, "type", None) = Str("auto") \/ "w" \notin DOMAIN e.attrs)) =>
                      record.attrs["width"] = Str("auto")

\* C6, amended: unit-type nil gives "0"; unit-type auto, or a missing
\* unit-type, gives "auto"; no width element gives inherit; a missing or
\* non-numeric magnitude is read as 0, so it gives "0pt" with unit-type dxa
\* and "0%" with unit-type pct.
C6_WidthByUnitType ==
    WidthRead =>
        IF WidthNodes = <<>> THEN record.attrs["width"] = inherit
        ELSE LET e == Last(WidthNodes)
                 typ == get(e, "type", None)
                 unread == ~int(get(e, "w", None)).ok
             IN /\ typ = Str("nil") => record.attrs["width"] = Str("0")
                /\ typ \in {Str("auto"), None} => record.attrs["width"] = Str("auto")
                /\ (typ = Str("dxa") /\ unread) => record.attrs["width"] = Str("0pt")
                /\ (typ = Str("pct") /\ unread) => record.attrs["width"] = Str("0%")

\* a table record was built from a node whose last w:tblW has the unit-type
\* dxa and no magnitude, and its width is "0pt"
C6_Witness ==
    /\ record.cls = "TableStyle"
    /\ record.node # NoNode
    /\ Len(WidthNodes) = 2
    /\ DOMAIN Last(WidthNodes).attrs = {"type"}
    /\ Last(WidthNodes).attrs["type"] = "dxa"
    /\ record.attrs["width"] = Str("0pt")

\* C7 as stated: a RowStyle built from a node has each of height, cantSplit,
\* hidden and spacing, and each is inherit, as in a RowStyle built from no node.
C7_RowStyleFromNodeInherits ==
    record.cls = "RowStyle" =>
        /\ DOMAIN record.attrs = Range(RowStyle_all_properties)
        /\ \A p \in DOMAIN record.attrs : record.attrs[p] = inherit

\* the merge elements of the node the record at hand was built from
MergeNodes(x) == XPath(record.node, x)

\* C8 as stated: hMerge and vMerge of a CellStyle built from a node are each
\* "continue" or inherit.
C8_MergeContinueOrInherit ==
    (record.cls = "CellStyle" /\ record.node # NoNode) =>
        \A x \in {"hMerge", "vMerge"} : record.attrs[x] \in {Str("continue"), inherit}

\* C8, amended: hMerge and vMerge of a CellStyle built from a node are each,
\* whatever the other is, inherit when the node has no such element, and else
\* the w:val of the last such element, "continue" when it has none.
C8_MergeIsLastVal ==
    (record.cls = "CellStyle" /\ record.node # NoNode) =>
        \A x \in {"hMerge", "vMerge"} :
            IF MergeNodes(x) = <<>> THEN record.attrs[x] = inherit
            ELSE IF "val" \in DOMAIN Last(MergeNodes(x)).attrs
                 THEN record.attrs[x] = Str(Last(MergeNodes(x)).attrs["val"])
                 ELSE record.attrs[x] = Str("continue")

\* a cell record was built from a node with a w:hMerge without w:val and a
\* w:vMerge of w:val "restart"
C8_Witness ==
    /\ record.cls = "CellStyle"
    /\ record.node # NoNode
    /\ MergeNodes("hMerge") # <<>>
    /\ "val" \notin DOMAIN Last(MergeNodes("hMerge")).attrs
    /\ record.attrs["hMerge"] = Str("continue")
    /\ MergeNodes("vMerge") # <<>>
    /\ record.attrs["vMerge"] = Str("restart")

=============================================================================
